---- MODULE Spec2Model ----
(***************************************************************************)
(* Model of the memcache binary-protocol client (package memcache):        *)
(* ServerList (shard selection and the per-shard connection pools), the     *)
(* response decoder of server_conn.go and the operations of Client (Get,    *)
(* GetMulti, Set, Add, CompareAndSwap, Delete, Increment, Decrement,        *)
(* Flush).  The memcached servers and the network are the environment.      *)
(***************************************************************************)
EXTENDS Integers, Sequences, FiniteSets, TLC

(***************************************************************************)
(* Bounds of the model.                                                     *)
(***************************************************************************)
MaxShards == 2     \* configs has 0..MaxShards entries
NumProcs  == 2     \* goroutines calling the client concurrently
MaxOps    == 2     \* client operations started in one behaviour
MaxMulti  == 1     \* GetMulti calls among them
MaxOther  == 1     \* writes by other clients of the servers in one behaviour
MaxConns  == 3     \* connections the pools may dial in one behaviour
MaxKeys   == 2     \* length of the key list given to GetMulti
MaxFaults == 1     \* failures the network, the pools and the servers inject in one behaviour
MaxCalls  == 3     \* calls of the ServerList's methods in one behaviour
MaxKeyLen == 2     \* bytes a key string is built from one by one

Procs  == 1..NumProcs
Shards == 0..(MaxShards - 1)
ConnIds == 1..MaxConns     \* a connection variable holding 0 is nil

(***************************************************************************)
(* Keys are byte strings; "a" = <<97>>, "d" = <<100>>.  " " = <<32>> is a    *)
(* key legalKey rejects; Get is also called with it.                        *)
(***************************************************************************)
KeyA == <<97>>
KeyD == <<100>>
KeySp == <<32>>
Keys == {KeyA, KeyD}
GetKeys == Keys \cup {KeySp}
EmptyKey == <<>>

(***************************************************************************)
(* 32-bit words as <<high 16 bits, low 16 bits>>, and hash/crc32            *)
(* ChecksumIEEE (reflected, polynomial 0xEDB88320) over them.               *)
(***************************************************************************)
RECURSIVE Xor16(_, _, _)
Xor16(a, b, n) ==
    IF n = 0 THEN 0
    ELSE (((a % 2) + (b % 2)) % 2) + 2 * Xor16(a \div 2, b \div 2, n - 1)

XorW(x, y) == <<Xor16(x[1], y[1], 16), Xor16(x[2], y[2], 16)>>

ShrW(x) == <<x[1] \div 2, (x[2] \div 2) + (x[1] % 2) * 32768>>

IEEEPoly == <<60856, 33568>>     \* 0xEDB88320
AllOnes  == <<65535, 65535>>     \* 0xFFFFFFFF

RECURSIVE CrcBits(_, _)
CrcBits(crc, n) ==
    IF n = 0 THEN crc
    ELSE CrcBits(IF crc[2] % 2 = 1 THEN XorW(ShrW(crc), IEEEPoly) ELSE ShrW(crc), n - 1)

RECURSIVE CrcUpdate(_, _)
CrcUpdate(crc, bytes) ==
    IF bytes = <<>> THEN crc
    ELSE CrcUpdate(CrcBits(XorW(crc, <<0, Head(bytes)>>), 8), Tail(bytes))

Crc32(bytes) == XorW(CrcUpdate(AllOnes, bytes), AllOnes)

\* the checksums of the model's keys, computed once
CrcOfKeys == [k \in GetKeys |-> Crc32(k)]

ChecksumIEEE(bytes) == IF bytes \in DOMAIN CrcOfKeys THEN CrcOfKeys[bytes] ELSE Crc32(bytes)

\* cs % uint32(n) for a 32-bit word cs
ModW(cs, n) == ((cs[1] % n) * (65536 % n) + (cs[2] % n)) % n

(***************************************************************************)
(* server_conn.go: commands, response statuses, sentinel errors.            *)
(***************************************************************************)
cmdGet    == 0
cmdSet    == 1
cmdAdd    == 2
cmdDelete == 4
cmdIncr   == 5
cmdDecr   == 6
cmdFlush  == 8
cmdNoop   == 10
cmdGetKQ  == 13

respOk              == 0
respKeyNotFound     == 1
respKeyExists       == 2
respInvalidArgs     == 4
respItemNotStored   == 5
respInvalidIncrDecr == 6
respOOM             == 130

respMagic == 129

opAuthList  == 32
opAuthStart == 33
respAuthErr == 8

Err(name) == [e |-> name, r |-> 0]
Nil             == Err("nil")
ErrCacheMiss    == Err("ErrCacheMiss")
ErrCASConflict  == Err("ErrCASConflict")
ErrNotStored    == Err("ErrNotStored")
ErrMalformedKey == Err("ErrMalformedKey")
ErrNoServers    == Err("ErrNoServers")
ErrBadMagic     == Err("ErrBadMagic")
ErrBadIncrDec   == Err("ErrBadIncrDec")
\* an error of the transport (io.ErrUnexpectedEOF, a net.OpError, ...)
ErrIO           == Err("io")
\* the run-time panic of an index expression out of range
ErrPanic        == Err("panic: runtime error: index out of range")
\* an error returned by pool.Get (dial failure, pool exhausted)
ErrPool         == Err("pool")
\* the error built by Flush from its failed shards
ErrFlush        == Err("failed to flush some servers")
\* a response status returned as an error value
StatusErr(r)    == [e |-> "response", r |-> r]

asError(r) ==
    CASE r = respKeyNotFound     -> ErrCacheMiss
      [] r = respKeyExists       -> ErrNotStored
      [] r = respInvalidIncrDecr -> ErrBadIncrDec
      [] r = respItemNotStored   -> ErrNotStored
      [] OTHER                   -> StatusErr(r)

\* a validator that lets the space through
legalKeyWithSpace(key) ==
    /\ Len(key) <= 250
    /\ \A i \in 1..Len(key) : ~(key[i] < 32 \/ key[i] > 126)

legalKey(key) ==
    /\ Len(key) <= 250
    /\ \A i \in 1..Len(key) : ~(key[i] <= 32 \/ key[i] > 126)

(***************************************************************************)
(* encoding/binary big-endian helpers (putUint32, bUint32, bUint64).        *)
(***************************************************************************)
putUint32(v) ==
    <<(v \div 16777216) % 256, (v \div 65536) % 256, (v \div 256) % 256, v % 256>>

RECURSIVE bUint(_)
bUint(b) == IF b = <<>> THEN 0 ELSE bUint(SubSeq(b, 1, Len(b) - 1)) * 256 + b[Len(b)]

bUint32(b) == bUint(SubSeq(b, 1, 4))
bUint64(b) == bUint(SubSeq(b, 1, 8))

(***************************************************************************)
(* The lifecycle switch every operation applies to the decode error:        *)
(*   case nil, ErrCacheMiss, ErrCASConflict, ErrNotStored, ErrBadIncrDec    *)
(***************************************************************************)
\* a switch that takes the errors of an InvalidArgs response for recoverable
ReleasableWithInvalidArgs(err) ==
    err \in {Nil, ErrCacheMiss, ErrCASConflict, ErrNotStored, ErrBadIncrDec,
             ErrMalformedKey, StatusErr(respInvalidArgs)}

ReleasableWithoutNotStored(err) ==
    err \in {Nil, ErrCacheMiss, ErrCASConflict, ErrBadIncrDec}

Releasable(err) ==
    err \in {Nil, ErrCacheMiss, ErrCASConflict, ErrNotStored, ErrBadIncrDec}


(***************************************************************************)
(* sendConnCommand: the request frame it writes (24-byte header fields,     *)
(* then extras, key, value).                                                *)
(***************************************************************************)
reqMagic == 128

Request(key, cmd, value, casid, extras) ==
    [ magic  |-> reqMagic,
      cmd    |-> cmd,
      kl     |-> Len(key),
      el     |-> Len(extras),
      bl     |-> Len(key) + Len(extras) + Len(value),
      cas    |-> casid,
      extras |-> extras,
      key    |-> key,
      value  |-> value ]

(***************************************************************************)
(* Environment: a memcached server speaking the binary protocol.  One       *)
(* store per shard; every successful write gives the entry a fresh cas.     *)
(***************************************************************************)
NoEntry == [has |-> FALSE, value |-> <<>>, flags |-> <<>>, cas |-> 0]
EmptyStore == [k \in Keys |-> NoEntry]

Frame(status, cas, extras, key, value) ==
    [ magic  |-> respMagic,
      status |-> status,
      cas    |-> cas,
      extras |-> extras,
      key    |-> key,
      value  |-> value,
      total  |-> Len(extras) + Len(key) + Len(value) ]

\* the body of a non-OK response is a short message text
ErrText == <<69>>
ErrFrame(status) == Frame(status, 0, <<>>, <<>>, ErrText)

IsNumeric(v) == v # <<>> /\ \A i \in 1..Len(v) : v[i] \in 48..57

RECURSIVE Atoi(_)
Atoi(v) == IF v = <<>> THEN 0 ELSE Atoi(SubSeq(v, 1, Len(v) - 1)) * 10 + (v[Len(v)] - 48)

RECURSIVE Itoa(_)
Itoa(n) == IF n < 10 THEN <<48 + n>> ELSE Itoa(n \div 10) \o <<48 + (n % 10)>>

putUint64(n) == putUint32(0) \o putUint32(n)

Has(st, k) == k \in DOMAIN st /\ st[k].has

\* st: the shard's store, ctr: its cas counter, sf: respOk, or the error
\* status an unwilling server answers with (out of memory, invalid arguments)
Serve(st, ctr, req, sf) ==
    LET k     == req.key
        keep  == [store |-> st, ctr |-> ctr, out |-> <<>>]
        fail(status) == [keep EXCEPT !.out = <<ErrFrame(status)>>]
        put(v, fl) ==
            [ store |-> [st EXCEPT ![k] = [has |-> TRUE, value |-> v, flags |-> fl, cas |-> ctr + 1]],
              ctr   |-> ctr + 1,
              out   |-> <<Frame(respOk, ctr + 1, <<>>, <<>>, <<>>)>> ]
    IN
    IF sf # respOk THEN fail(sf)
    ELSE CASE req.cmd = cmdGet ->
               IF Has(st, k)
               THEN [keep EXCEPT !.out = <<Frame(respOk, st[k].cas, st[k].flags, <<>>, st[k].value)>>]
               ELSE fail(respKeyNotFound)
           [] req.cmd = cmdGetKQ ->
               IF Has(st, k)
               THEN [keep EXCEPT !.out = <<Frame(respOk, st[k].cas, st[k].flags, k, st[k].value)>>]
               ELSE keep
           [] req.cmd = cmdNoop ->
               [keep EXCEPT !.out = <<Frame(respOk, 0, <<>>, <<>>, <<>>)>>]
           [] req.cmd = cmdSet ->
               IF k \notin DOMAIN st THEN fail(respInvalidArgs)
               ELSE IF req.cas # 0 /\ ~st[k].has THEN fail(respKeyNotFound)
               ELSE IF req.cas # 0 /\ st[k].cas # req.cas THEN fail(respKeyExists)
               ELSE put(req.value, SubSeq(req.extras, 1, 4))
           [] req.cmd = cmdAdd ->
               IF k \notin DOMAIN st THEN fail(respInvalidArgs)
               ELSE IF st[k].has THEN fail(respKeyExists)
               ELSE put(req.value, SubSeq(req.extras, 1, 4))
           [] req.cmd = cmdDelete ->
               IF Has(st, k)
               THEN [ store |-> [st EXCEPT ![k] = NoEntry], ctr |-> ctr,
                      out |-> <<Frame(respOk, 0, <<>>, <<>>, <<>>)>> ]
               ELSE fail(respKeyNotFound)
           [] req.cmd \in {cmdIncr, cmdDecr} ->
               IF ~Has(st, k) THEN fail(respKeyNotFound)
               ELSE IF ~IsNumeric(st[k].value) THEN fail(respInvalidIncrDecr)
               ELSE LET old   == Atoi(st[k].value)
                        delta == bUint64(req.extras)
                        new   == IF req.cmd = cmdIncr THEN old + delta
                                 ELSE IF delta > old THEN 0 ELSE old - delta
                    IN [ store |-> [st EXCEPT ![k] = [@ EXCEPT !.value = Itoa(new), !.cas = ctr + 1]],
                         ctr   |-> ctr + 1,
                         out   |-> <<Frame(respOk, ctr + 1, <<>>, <<>>, putUint64(new))>> ]
           [] req.cmd = cmdFlush ->
               \* a delayed flush takes effect after the delay, an immediate one now
               [ store |-> IF req.extras # <<>> /\ bUint32(req.extras) > 0 THEN st
                           ELSE [x \in DOMAIN st |-> NoEntry],
                 ctr |-> ctr,
                 out |-> <<Frame(respOk, 0, <<>>, <<>>, <<>>)>> ]
           [] OTHER -> fail(respInvalidArgs)


\* a server that is sloppy understates the total body length of an OK frame
\* that has extras or a key
Understate(frame) ==
    IF frame.status = respOk /\ Len(frame.extras) + Len(frame.key) > 0
    THEN [frame EXCEPT !.total = Len(frame.extras) + Len(frame.key) - 1]
    ELSE frame

Framed(sloppy, out) == IF sloppy THEN [j \in DOMAIN out |-> Understate(out[j])] ELSE out

(***************************************************************************)
(* parseResponse(rKey, cn).  stream is what the connection will deliver,    *)
(* one frame per response; fault is what the transport does to this read:   *)
(* "io" fails a read, "magic" delivers a wrong first byte.                  *)
(***************************************************************************)
ReadFaults == {"none", "io", "magic"}

NoFrame == Frame(respOk, 0, <<>>, <<>>, <<>>)

\* bytes left on the connection that begin no frame
Bytes(left) == [NoFrame EXCEPT !.magic = left[1], !.value = left, !.total = Len(left)]

\* the body bytes that follow the header of a frame on the connection
BodyOf(frame) == frame.extras \o frame.key \o frame.value

\* what the connection holds once n bytes of the body of its first frame are read
After(stream, n) ==
    LET body == BodyOf(Head(stream)) IN
    IF n >= Len(body) THEN Tail(stream)
    ELSE <<Bytes(SubSeq(body, n + 1, Len(body)))>> \o Tail(stream)

\* a decoder that leaves the body of a non-OK response unread
CopyNothing(hdr) == 0

\* io.CopyN(ioutil.Discard, cn, int64(total)): the bytes it takes
CopyN(hdr) == hdr.total

parseResponse(rKey, stream, fault) ==
    LET bad(err, rest) ==
            [hdr |-> NoFrame, key |-> <<>>, extras |-> <<>>, value |-> <<>>,
             err |-> err, rest |-> rest]
    IN
    IF fault = "io" \/ stream = <<>> THEN bad(ErrIO, stream)
    ELSE LET hdr == IF fault = "magic" THEN [Head(stream) EXCEPT !.magic = 0]
                    ELSE Head(stream)
         IN
         IF hdr.magic # respMagic THEN bad(ErrBadMagic, stream)
         ELSE IF hdr.status # respOk
         THEN IF hdr.status = respInvalidArgs /\ ~legalKey(rKey)
              THEN bad(ErrMalformedKey, After(stream, CopyN(hdr)))
              ELSE bad(asError(hdr.status), After(stream, CopyN(hdr)))
         ELSE LET el == Len(hdr.extras)
                  kl == Len(hdr.key)
                  vl == hdr.total - el - kl
              IN [ hdr    |-> hdr,
                   key    |-> hdr.key,
                   extras |-> hdr.extras,
                   value  |-> IF vl > 0 THEN SubSeq(hdr.value, 1, vl) ELSE <<>>,
                   err    |-> Nil,
                   rest   |-> After(stream, el + kl + (IF vl > 0 THEN vl ELSE 0)) ]

(***************************************************************************)
(* State.                                                                   *)
(***************************************************************************)
VARIABLES
    configs,    \* the []Config given to New
    servers,    \* the ServerList built from it
    store,      \* store[i]: the entries held by the server of shard i
    casctr,     \* casctr[i]: the last cas the server of shard i assigned
    conns,      \* the connections of the pools
    proc,       \* proc[p]: the client call goroutine p is in
    task,       \* task[p][i]: the per-shard goroutine of p's GetMulti
    nops,       \* operations started so far
    nfaults,    \* failures injected so far
    returned,   \* the call that returned last, with what it returned
    nmulti,     \* GetMulti calls started so far
    nother,     \* writes by other clients so far
    srv,        \* srv[i]: what the server of shard i is like (its SASL mechanisms, its framing)
    vkey,       \* a key string under construction
    vok         \* what legalKey says of it

vars == <<configs, servers, srv, vkey, vok, store, casctr, conns, proc, task, nops, nfaults,
          returned, nmulti, nother>>

Addrs == <<"10.0.0.1:11211", "10.0.0.2:11211", "10.0.0.3:11211", "10.0.0.4:11211">>

(***************************************************************************)
(* NewServerList: serversName is made with len(configs) empty strings and   *)
(* the addresses are appended after them.                                    *)
(***************************************************************************)
NewServerList(cfgs) ==
    [ pool         |-> Len(cfgs),
      poolLen      |-> Len(cfgs),
      serversNames |-> [i \in 1..Len(cfgs) |-> ""] \o [i \in 1..Len(cfgs) |-> cfgs[i].Server] ]

\* s.serversNames[index]
Name(index) == servers.serversNames[index + 1]

PoolLen == servers.poolLen

\* a selector that spreads the calls over the shards in turn
PickRoundRobin(key) ==
    IF servers.pool = 0 THEN [idx |-> 0, err |-> ErrNoServers]
    ELSE [idx |-> nops % servers.pool, err |-> Nil]

PickServerIndex(key) ==
    IF servers.pool = 0 THEN [idx |-> 0, err |-> ErrNoServers]
    ELSE [idx |-> ModW(ChecksumIEEE(key), servers.pool), err |-> Nil]

(***************************************************************************)
(* server.go, newPool: the factory of a pool dials and, with a user or a    *)
(* password configured, lists the SASL mechanisms and starts PLAIN if the   *)
(* list has it.  mechs is the list the server answers AuthList with; f is   *)
(* the one thing that goes wrong during the call, if any.  sock is the      *)
(* socket DialTimeout gave when the factory returns: "none" when the dial   *)
(* failed, "open" otherwise, as no path of the factory calls conn.Close.    *)
(***************************************************************************)
PLAIN == <<80, 76, 65, 73, 78>>
LOGIN == <<76, 79, 71, 73, 78>>

\* strings.Index(s, sub)
Index(s, sub) ==
    LET at == {i \in 0..(Len(s) - Len(sub)) : SubSeq(s, i + 1, i + Len(sub)) = sub}
    IN IF at = {} THEN -1 ELSE CHOOSE i \in at : \A j \in at : i <= j

FactoryFaults ==
    {"none", "dial", "listwrite", "listrefuse", "listio", "startwrite", "startrefuse", "startio"}

\* the server's answers to the SASL commands
AuthServe(req, mechs, sf) ==
    IF sf # respOk THEN <<ErrFrame(sf)>>
    ELSE IF req.cmd = opAuthList THEN <<Frame(respOk, 0, <<>>, <<>>, mechs)>>
    ELSE <<Frame(respOk, 0, <<>>, <<>>, <<>>)>>

\* a factory that does not look at the answer to AuthStart
factoryUnchecked(config, mechs, f) ==
    LET fail(err, hs) == [err |-> err, hs |-> hs, flt |-> 1, sock |-> "open"]
        ok(hs, flt)   == [err |-> Nil, hs |-> hs, flt |-> flt, sock |-> "open"]
        list  == Request(<<>>, opAuthList, <<>>, 0, <<>>)
        start == Request(PLAIN, opAuthStart, <<0>> \o config.User \o <<0>> \o config.Password,
                         0, <<>>)
        pr1 == parseResponse(<<>>, AuthServe(list, mechs, IF f = "listrefuse" THEN respAuthErr ELSE respOk),
                             IF f = "listio" THEN "io" ELSE "none")
        pr2 == parseResponse(PLAIN, AuthServe(start, mechs, IF f = "startrefuse" THEN respAuthErr ELSE respOk),
                             IF f = "startio" THEN "io" ELSE "none")
        x1 == [req |-> list, err |-> pr1.err]
        x2 == [req |-> start, err |-> pr2.err]
    IN
    IF f = "dial" THEN [fail(ErrPool, <<>>) EXCEPT !.sock = "none"]
    ELSE IF config.User = <<>> /\ config.Password = <<>> THEN ok(<<>>, 0)
    ELSE IF f = "listwrite" THEN fail(ErrIO, <<>>)
    ELSE IF pr1.err # Nil THEN fail(pr1.err, <<x1>>)
    ELSE IF Index(pr1.value, PLAIN) = -1 THEN ok(<<x1>>, 0)
    ELSE IF f = "startwrite" THEN fail(ErrIO, <<x1>>)
    ELSE ok(<<x1, x2>>, IF pr2.err # Nil THEN 1 ELSE 0)

factory(config, mechs, f) ==
    LET fail(err, hs) == [err |-> err, hs |-> hs, flt |-> 1, sock |-> "open"]
        ok(hs)        == [err |-> Nil, hs |-> hs, flt |-> 0, sock |-> "open"]
        list  == Request(<<>>, opAuthList, <<>>, 0, <<>>)
        start == Request(PLAIN, opAuthStart, <<0>> \o config.User \o <<0>> \o config.Password,
                         0, <<>>)
        pr1 == parseResponse(<<>>, AuthServe(list, mechs, IF f = "listrefuse" THEN respAuthErr ELSE respOk),
                             IF f = "listio" THEN "io" ELSE "none")
        pr2 == parseResponse(PLAIN, AuthServe(start, mechs, IF f = "startrefuse" THEN respAuthErr ELSE respOk),
                             IF f = "startio" THEN "io" ELSE "none")
        x1 == [req |-> list, err |-> pr1.err]
        x2 == [req |-> start, err |-> pr2.err]
    IN
    IF f = "dial" THEN [fail(ErrPool, <<>>) EXCEPT !.sock = "none"]
    ELSE IF config.User = <<>> /\ config.Password = <<>> THEN ok(<<>>)
    ELSE IF f = "listwrite" THEN fail(ErrIO, <<>>)
    ELSE IF pr1.err # Nil THEN fail(pr1.err, <<x1>>)
    ELSE IF Index(pr1.value, PLAIN) = -1 THEN ok(<<x1>>)
    ELSE IF f = "startwrite" THEN fail(ErrIO, <<x1>>)
    ELSE IF pr2.err # Nil THEN fail(pr2.err, <<x1, x2>>)
    ELSE ok(<<x1, x2>>)

(***************************************************************************)
(* The pools (github.com/silenceper/pool behind ServerList): Get hands out  *)
(* an idle connection of the shard or dials a new one, or fails; Put makes  *)
(* the connection idle again; Close closes it.                              *)
(***************************************************************************)
NoOwner == [p |-> 0, t |-> 0]
Main(p) == [p |-> p, t |-> -1]
TaskOf(p, i) == [p |-> p, t |-> i]

\* st: "unopened" (no socket yet), "held" (checked out of the pool), "idle"
\* (in the pool), "closed", or "dialed": a socket the factory dialed and
\* returned an error for, open and unknown to the pool
\* hs: what the factory wrote and read on the connection before the pool got it
Unopened ==
    [st |-> "unopened", shard |-> 0, owner |-> NoOwner, out |-> <<>>, misuse |-> FALSE,
     hs |-> <<>>]

ErrServerNotFound == Err("server not found")

LowestOf(S) == CHOOSE c \in S : \A d \in S : c <= d

PoolGet(cs, index, who) ==
    LET idle  == {c \in ConnIds : cs[c].st = "idle" /\ cs[c].shard = index}
        fresh == {c \in ConnIds : cs[c].st = "unopened"}
    IN  {[cn |-> c, err |-> Nil, flt |-> 0,
          conns |-> [cs EXCEPT ![c].st = "held", ![c].owner = who]] : c \in idle}
        \cup
        (IF idle = {} /\ fresh # {}
         THEN {IF made.err = Nil
               THEN [cn |-> LowestOf(fresh), err |-> Nil, flt |-> made.flt,
                     conns |-> [cs EXCEPT ![LowestOf(fresh)] =
                                   [Unopened EXCEPT !.st = "held", !.shard = index,
                                                    !.owner = who, !.hs = made.hs]]]
               ELSE [cn |-> 0, err |-> made.err, flt |-> made.flt,
                     conns |-> IF made.sock = "none" THEN cs
                               ELSE [cs EXCEPT ![LowestOf(fresh)] =
                                        [Unopened EXCEPT !.st = "dialed", !.shard = index,
                                                         !.hs = made.hs]]] :
               made \in {factory(configs[index + 1], srv[index].mechs, f) : f \in FactoryFaults}}
         ELSE {})
        \cup
        \* every connection the pool may open is checked out
        (IF idle = {} /\ fresh = {}
         THEN {[cn |-> 0, err |-> ErrPool, flt |-> 0, conns |-> cs]}
         ELSE {})

\* the guard "s.poolLen < index" the three methods start with, then the
\* index expression s.pool[index]: what stops the method, or Nil
AtIndex(index) ==
    IF servers.poolLen < index THEN ErrServerNotFound
    ELSE IF index >= servers.pool THEN ErrPanic
    ELSE Nil

GetConnection(cs, index, who) ==
    IF AtIndex(index) # Nil
    THEN {[cn |-> 0, err |-> AtIndex(index), flt |-> 0, conns |-> cs]}
    ELSE PoolGet(cs, index, who)

\* the connection is idle in pool[index]
PutConnection(cs, index, cn) ==
    IF AtIndex(index) # Nil THEN cs
    ELSE [cs EXCEPT ![cn].st = "idle", ![cn].owner = NoOwner, ![cn].shard = index,
                    ![cn].misuse = @ \/ cs[cn].st # "held" \/ cs[cn].shard # index]

CloseConnection(cs, index, cn) ==
    IF AtIndex(index) # Nil THEN cs
    ELSE [cs EXCEPT ![cn].st = "closed", ![cn].owner = NoOwner,
                    ![cn].misuse = @ \/ cs[cn].st # "held" \/ cs[cn].shard # index]



(***************************************************************************)
(* Client calls.  proc[p] holds the locals of the call goroutine p is in    *)
(* and, once pc = "done", what the call returned.  item is the *Item the    *)
(* caller holds (returned by Get, or passed to Set/Add/CompareAndSwap);     *)
(* nput and nclose count the PutConnection and CloseConnection calls the    *)
(* call has made.                                                            *)
(***************************************************************************)
NoItem == [Key |-> <<>>, Value |-> <<>>, Flags |-> 0, Expiration |-> 0, casid |-> 0]

\* answer: the status the server answered the call's request with,
\* anscas: the cas of that response, and had: the cas of the entry the
\* server held for the key when the request arrived (0: none)
NoAnswer == respOk - 1     \* below every status: no request was answered
AnswerOf(out) == IF out = <<>> THEN NoAnswer ELSE out[1].status
CasOf(out) == IF out = <<>> THEN 0 ELSE out[1].cas
HadOf(st, k) == IF Has(st, k) THEN st[k].cas ELSE 0

NoCall ==
    [ op |-> "none", pc |-> "idle", key |-> <<>>, idx |-> 0, cn |-> 0,
      written |-> FALSE, answer |-> NoAnswer, err |-> Nil, item |-> NoItem, val |-> 0,
      arg |-> NoItem, reqcas |-> 0, anscas |-> 0, had |-> 0,
      nput |-> 0, nclose |-> 0,
      steps |-> <<>>, failed |-> <<>>, errs |-> <<>>, extras |-> <<>>,
      keys |-> <<>>, chs |-> <<>>, ci |-> 0, m |-> {}, mnil |-> TRUE,
      p |-> 0, tasks |-> <<>> ]

\* hits: the entries the server had for the task's GetKQ requests when it
\* answered them; parsed: the items the task has read; reqs: the requests it
\* has written; seen: the key and the error of every parseResponse it made
NoTask ==
    [ pc |-> "none", keys |-> <<>>, i |-> 0, cn |-> 0, item |-> NoItem,
      failed |-> FALSE, nput |-> 0, nclose |-> 0, hits |-> <<>>, parsed |-> <<>>,
      reqs |-> <<>>, seen |-> <<>> ]

\* the call of p goes on as rec or, with rec.pc = "done", returns: the caller
\* keeps its item, and returned shows the call with the goroutines it started
Settle(p, rec) ==
    IF rec.pc = "done"
    THEN /\ proc' = [proc EXCEPT ![p] = [NoCall EXCEPT !.item = rec.item]]
         /\ returned' = [rec EXCEPT !.p = p, !.tasks = task[p]]
    ELSE /\ proc' = [proc EXCEPT ![p] = rec]
         /\ UNCHANGED returned

\* what the callers store: the text "1" with flags 5
Inputs == { [Value |-> <<49>>, Flags |-> 5] }
Deltas == {1}
FlushDelays == {0, 30}
\* the statuses an unwilling server refuses a request with
Refusals == {respInvalidArgs, respOOM}

\* what may happen to a sendConnCommand: the write fails (w = "fail"), or the
\* request reaches the server, which handles it (sf = respOk) or refuses it
Writes ==
    {[w |-> "ok", sf |-> respOk, flt |-> 0]}
    \cup (IF nfaults < MaxFaults
          THEN {[w |-> "fail", sf |-> respOk, flt |-> 1]}
               \cup {[w |-> "ok", sf |-> r, flt |-> 1] : r \in Refusals}
          ELSE {})

\* what may happen to the reads of a parseResponse
Reads == IF nfaults < MaxFaults THEN ReadFaults ELSE {"none"}
FaultOf(fault) == IF fault = "none" THEN 0 ELSE 1

Acquire(index, who) == {a \in GetConnection(conns, index, who) : nfaults + a.flt <= MaxFaults}

CanStart(p) == proc[p].pc = "idle" /\ nops < MaxOps

NewCall(p, op, key) ==
    [NoCall EXCEPT !.op = op, !.key = key, !.item = proc[p].item]

\* a release that runs before the switch as well
LifecycleReleaseFirst(cs, index, cn, err) ==
    IF Releasable(err) THEN PutConnection(cs, index, cn)
    ELSE CloseConnection(PutConnection(cs, index, cn), index, cn)

\* the connection goes back to the pool or is closed, by the decode error
Lifecycle(cs, index, cn, err) ==
    IF Releasable(err) THEN PutConnection(cs, index, cn)
    ELSE CloseConnection(cs, index, cn)

\* the call's count of hand-backs, read off what was done to connection cn
Counted(rec, before, after, cn) ==
    IF before[cn] = after[cn] THEN rec
    ELSE IF after[cn].st = "idle" THEN [rec EXCEPT !.nput = @ + 1]
    ELSE [rec EXCEPT !.nclose = @ + 1]

(***************************************************************************)
(* The common head of Get, populateOne, Delete and incrDecr: pick the       *)
(* shard, take a connection, write the request; each failure returns.       *)
(***************************************************************************)
SendOne(p, call, req) ==
    LET pk == PickServerIndex(call.key) IN
    IF pk.err # Nil
    THEN /\ Settle(p, [call EXCEPT !.pc = "done", !.err = pk.err])
         /\ UNCHANGED <<conns, store, casctr, nfaults>>
    ELSE \E a \in Acquire(pk.idx, Main(p)) :
           IF a.err # Nil
           THEN /\ Settle(p, [call EXCEPT !.pc = "done", !.idx = pk.idx, !.err = a.err])
                /\ nfaults' = nfaults + a.flt
                /\ conns' = a.conns
                /\ UNCHANGED <<store, casctr>>
           ELSE \E wr \in Writes :
                  (nfaults' = nfaults + wr.flt) /\
                  IF wr.w = "fail"
                  THEN /\ conns' = CloseConnection(a.conns, pk.idx, a.cn)
                       /\ Settle(p, [Counted(call, a.conns, conns', a.cn) EXCEPT
                                         !.pc = "done", !.idx = pk.idx, !.cn = a.cn,
                                         !.err = ErrIO])
                       /\ UNCHANGED <<store, casctr>>
                  ELSE LET r == Serve(store[pk.idx], casctr[pk.idx], req, wr.sf) IN
                       /\ store' = [store EXCEPT ![pk.idx] = r.store]
                       /\ casctr' = [casctr EXCEPT ![pk.idx] = r.ctr]
                       /\ conns' = [a.conns EXCEPT ![a.cn].out =
                                                      @ \o Framed(srv[pk.idx].sloppy, r.out)]
                       /\ Settle(p, [call EXCEPT !.pc = "sent", !.idx = pk.idx, !.cn = a.cn,
                                                  !.written = TRUE, !.answer = AnswerOf(r.out),
                                                  !.reqcas = req.cas, !.anscas = CasOf(r.out),
                                                  !.had = HadOf(store[pk.idx], req.key)])

Begin(p) == /\ CanStart(p)
            /\ nops' = nops + 1
            /\ UNCHANGED <<configs, servers, srv, vkey, vok>>

BeginOne(p) == Begin(p) /\ UNCHANGED <<task, nmulti, nother>>

Get(p) ==
    /\ BeginOne(p)
    /\ \E key \in GetKeys :
         SendOne(p, NewCall(p, "Get", key), Request(key, cmdGet, <<>>, 0, <<>>))

GetReturn(p) ==
    /\ proc[p].op = "Get" /\ proc[p].pc = "sent"
    /\ \E fault \in Reads :
         (nfaults' = nfaults + FaultOf(fault)) /\
         LET me == proc[p]
             pr == parseResponse(me.key, conns[me.cn].out, fault)
             cs == [conns EXCEPT ![me.cn].out = pr.rest]
             flags == IF Len(pr.extras) > 0 THEN bUint32(pr.extras) ELSE 0
             key == IF me.key = <<>> /\ Len(pr.key) > 0 THEN pr.key ELSE me.key
             got == [Key |-> key, Value |-> pr.value, Flags |-> flags,
                     Expiration |-> 0, casid |-> pr.hdr.cas]
         IN /\ conns' = Lifecycle(cs, me.idx, me.cn, pr.err)
            /\ Settle(p, [Counted(me, cs, conns', me.cn) EXCEPT
                              !.pc = "done", !.err = pr.err,
                              !.item = IF pr.err = Nil THEN got ELSE @])
    /\ UNCHANGED <<configs, servers, srv, vkey, vok, store, casctr, task, nops, nmulti, nother>>

(***************************************************************************)
(* Set, Add, CompareAndSwap through populateOne.                            *)
(***************************************************************************)
\* the item the caller passes: the one it holds for the key, with the new
\* value and flags, or one it builds
ItemFor(p, key, in) ==
    IF proc[p].item.Key = key
    THEN [proc[p].item EXCEPT !.Value = in.Value, !.Flags = in.Flags]
    ELSE [NoItem EXCEPT !.Key = key, !.Value = in.Value, !.Flags = in.Flags]

populateOne(p, op, cmd, item, casid) ==
    LET extras == putUint32(item.Flags) \o putUint32(item.Expiration)
    IN SendOne(p, [NewCall(p, op, item.Key) EXCEPT !.item = item, !.arg = item],
               Request(item.Key, cmd, item.Value, casid, extras))

\* a Set that sends the token of the item
SetWithToken(p) ==
    /\ BeginOne(p)
    /\ \E key \in Keys, in \in Inputs :
         populateOne(p, "Set", cmdSet, ItemFor(p, key, in), ItemFor(p, key, in).casid)

Set(p) ==
    /\ BeginOne(p)
    /\ \E key \in Keys, in \in Inputs :
         populateOne(p, "Set", cmdSet, ItemFor(p, key, in), 0)

Add(p) ==
    /\ BeginOne(p)
    /\ \E key \in Keys, in \in Inputs :
         populateOne(p, "Add", cmdAdd, ItemFor(p, key, in), 0)

CompareAndSwap(p) ==
    /\ BeginOne(p)
    /\ \E key \in Keys, in \in Inputs :
         populateOne(p, "CompareAndSwap", cmdSet, ItemFor(p, key, in), ItemFor(p, key, in).casid)

populateOneReturn(p) ==
    /\ proc[p].op \in {"Set", "Add", "CompareAndSwap"} /\ proc[p].pc = "sent"
    /\ \E fault \in Reads :
         (nfaults' = nfaults + FaultOf(fault)) /\
         LET me == proc[p]
             pr == parseResponse(me.key, conns[me.cn].out, fault)
             cs == [conns EXCEPT ![me.cn].out = pr.rest]
         IN IF pr.err # Nil
            THEN /\ conns' = Lifecycle(cs, me.idx, me.cn, pr.err)
                 /\ Settle(p, [Counted(me, cs, conns', me.cn) EXCEPT !.pc = "done", !.err = pr.err])
            ELSE /\ conns' = PutConnection(cs, me.idx, me.cn)
                 /\ Settle(p, [Counted(me, cs, conns', me.cn) EXCEPT
                                   !.pc = "done", !.err = Nil, !.item.casid = pr.hdr.cas])
    /\ UNCHANGED <<configs, servers, srv, vkey, vok, store, casctr, task, nops, nmulti, nother>>

(***************************************************************************)
(* Delete.                                                                  *)
(***************************************************************************)
Delete(p) ==
    /\ BeginOne(p)
    /\ \E key \in Keys :
         SendOne(p, NewCall(p, "Delete", key), Request(key, cmdDelete, <<>>, 0, <<>>))

DeleteReturn(p) ==
    /\ proc[p].op = "Delete" /\ proc[p].pc = "sent"
    /\ \E fault \in Reads :
         (nfaults' = nfaults + FaultOf(fault)) /\
         LET me == proc[p]
             pr == parseResponse(me.key, conns[me.cn].out, fault)
             cs == [conns EXCEPT ![me.cn].out = pr.rest]
         IN /\ conns' = Lifecycle(cs, me.idx, me.cn, pr.err)
            /\ Settle(p, [Counted(me, cs, conns', me.cn) EXCEPT !.pc = "done", !.err = pr.err])
    /\ UNCHANGED <<configs, servers, srv, vkey, vok, store, casctr, task, nops, nmulti, nother>>

(***************************************************************************)
(* Increment, Decrement through incrDecr.                                   *)
(***************************************************************************)
incrDecr(p, op, cmd, key, delta) ==
    LET extras == putUint64(delta) \o putUint64(0) \o <<255, 255, 255, 255>>
    IN SendOne(p, NewCall(p, op, key), Request(key, cmd, <<>>, 0, extras))

Increment(p) ==
    /\ BeginOne(p)
    /\ \E key \in Keys, delta \in Deltas : incrDecr(p, "Increment", cmdIncr, key, delta)

Decrement(p) ==
    /\ BeginOne(p)
    /\ \E key \in Keys, delta \in Deltas : incrDecr(p, "Decrement", cmdDecr, key, delta)

incrDecrReturn(p) ==
    /\ proc[p].op \in {"Increment", "Decrement"} /\ proc[p].pc = "sent"
    /\ \E fault \in Reads :
         (nfaults' = nfaults + FaultOf(fault)) /\
         LET me == proc[p]
             pr == parseResponse(me.key, conns[me.cn].out, fault)
             cs == [conns EXCEPT ![me.cn].out = pr.rest]
         IN /\ conns' = Lifecycle(cs, me.idx, me.cn, pr.err)
            /\ Settle(p, [Counted(me, cs, conns', me.cn) EXCEPT
                              !.pc = "done", !.err = pr.err,
                              !.val = IF pr.err = Nil THEN bUint64(pr.value) ELSE 0])
    /\ UNCHANGED <<configs, servers, srv, vkey, vok, store, casctr, task, nops, nmulti, nother>>


(***************************************************************************)
(* Flush: the shards one after the other, failures collected.  steps is     *)
(* the record of the shard steps taken so far.                              *)
(***************************************************************************)
FlushStepDone(rec, index, cn, written, err) ==
    [rec EXCEPT
        !.steps  = Append(@, [idx |-> index, cn |-> cn, written |-> written, err |-> err,
                              nput |-> rec.nput, nclose |-> rec.nclose]),
        !.failed = IF err # Nil THEN Append(@, Name(index)) ELSE @,
        !.errs   = IF err # Nil THEN Append(@, err) ELSE @]

\* a Flush that gives up at the first shard that fails
FlushNextFailFast(rec) ==
    IF rec.idx + 1 < PoolLen /\ Len(rec.failed) = 0
    THEN [rec EXCEPT !.pc = "flush", !.idx = @ + 1, !.cn = 0, !.nput = 0, !.nclose = 0]
    ELSE [rec EXCEPT !.pc = "done", !.cn = 0,
                     !.err = IF Len(rec.failed) > 0 THEN ErrFlush ELSE Nil]

\* serverIndex++, and the return once serverIndex reaches PoolLen()
FlushNext(rec) ==
    IF rec.idx + 1 < PoolLen
    THEN [rec EXCEPT !.pc = "flush", !.idx = @ + 1, !.cn = 0, !.nput = 0, !.nclose = 0]
    ELSE [rec EXCEPT !.pc = "done", !.cn = 0,
                     !.err = IF Len(rec.failed) > 0 THEN ErrFlush ELSE Nil]

Flush(p) ==
    /\ BeginOne(p)
    /\ \E expiration \in FlushDelays :
         LET call == [NewCall(p, "Flush", <<>>) EXCEPT
                         !.extras = IF expiration > 0 THEN putUint32(expiration) ELSE <<>>]
         IN Settle(p, IF 0 < PoolLen THEN [call EXCEPT !.pc = "flush"]
                       ELSE [call EXCEPT !.pc = "done"])
    /\ UNCHANGED <<conns, store, casctr, nfaults>>

FlushShard(p) ==
    /\ proc[p].op = "Flush" /\ proc[p].pc = "flush"
    /\ LET me == proc[p] IN
       \E a \in Acquire(me.idx, Main(p)) :
         IF a.err # Nil
         THEN /\ Settle(p, FlushNext(FlushStepDone(me, me.idx, 0, FALSE, a.err)))
              /\ nfaults' = nfaults + a.flt
              /\ conns' = a.conns
              /\ UNCHANGED <<store, casctr>>
         ELSE \E wr \in Writes :
                (nfaults' = nfaults + wr.flt) /\
                IF wr.w = "fail"
                THEN /\ conns' = Lifecycle(a.conns, me.idx, a.cn, ErrIO)
                     /\ Settle(p, FlushNext(FlushStepDone(Counted(me, a.conns, conns', a.cn),
                                                           me.idx, a.cn, FALSE, ErrIO)))
                     /\ UNCHANGED <<store, casctr>>
                ELSE LET r == Serve(store[me.idx], casctr[me.idx],
                                    Request(<<>>, cmdFlush, <<>>, 0, me.extras), wr.sf) IN
                     /\ store' = [store EXCEPT ![me.idx] = r.store]
                     /\ casctr' = [casctr EXCEPT ![me.idx] = r.ctr]
                     /\ conns' = [a.conns EXCEPT ![a.cn].out =
                                                    @ \o Framed(srv[me.idx].sloppy, r.out)]
                     /\ Settle(p, [me EXCEPT !.pc = "flushsent", !.cn = a.cn])
    /\ UNCHANGED <<configs, servers, srv, vkey, vok, task, nops, nmulti, nother>>

FlushReply(p) ==
    /\ proc[p].op = "Flush" /\ proc[p].pc = "flushsent"
    /\ \E fault \in Reads :
         (nfaults' = nfaults + FaultOf(fault)) /\
         LET me == proc[p]
             pr == parseResponse(<<>>, conns[me.cn].out, fault)
             cs == [conns EXCEPT ![me.cn].out = pr.rest]
         IN /\ conns' = Lifecycle(cs, me.idx, me.cn, pr.err)
            /\ Settle(p, FlushNext(FlushStepDone(Counted(me, cs, conns', me.cn),
                                                  me.idx, me.cn, TRUE, pr.err)))
    /\ UNCHANGED <<configs, servers, srv, vkey, vok, store, casctr, task, nops, nmulti, nother>>

(***************************************************************************)
(* GetMulti: one goroutine per shard of the key list, each with its own     *)
(* unbuffered channel; the caller drains the channels in the order of chs.  *)
(***************************************************************************)
KeyLists == UNION {[1..n -> Keys] : n \in 0..MaxKeys}

Orders(S) == {f \in [1..Cardinality(S) -> S] : \A i, j \in DOMAIN f : i # j => f[i] # f[j]}

\* the keys of a shard, last first
KeyGroupReversed(keys, index) ==
    LET mine(k) == PickServerIndex(k).idx = index
        group == SelectSeq(keys, mine)
    IN [j \in 1..Len(group) |-> group[Len(group) + 1 - j]]

\* keyMap[serverIndex]: the keys of the list picked to that shard, in order
KeyGroup(keys, index) ==
    LET mine(k) == PickServerIndex(k).idx = index IN SelectSeq(keys, mine)

\* a map made anew for every item
MergeIntoNew(m, item) == {item}

\* m[item.Key] = item
Merge(m, item) == {x \in m : x.Key # item.Key} \cup {item}

GetMulti(p) ==
    /\ Begin(p)
    /\ nmulti < MaxMulti
    /\ nmulti' = nmulti + 1
    /\ UNCHANGED nother
    /\ \E keys \in KeyLists :
         LET call == [NewCall(p, "GetMulti", <<>>) EXCEPT !.keys = keys]
             touched == {PickServerIndex(keys[j]).idx : j \in DOMAIN keys}
         IN IF \E j \in DOMAIN keys : PickServerIndex(keys[j]).err # Nil
            THEN /\ Settle(p, [call EXCEPT !.pc = "done", !.err = ErrNoServers])
                 /\ UNCHANGED task
            ELSE \E chs \in Orders(touched) :
                   /\ Settle(p, IF chs = <<>>
                                 THEN [call EXCEPT !.pc = "done", !.mnil = FALSE]
                                 ELSE [call EXCEPT !.pc = "collect", !.chs = chs, !.ci = 1,
                                                   !.mnil = FALSE])
                   /\ task' = [task EXCEPT ![p] =
                                 [i \in Shards |->
                                    IF i \in touched
                                    THEN [NoTask EXCEPT !.pc = "start", !.keys = KeyGroup(keys, i)]
                                    ELSE NoTask]]
    /\ UNCHANGED <<conns, store, casctr, nfaults>>

TaskConnect(p, i) ==
    /\ task[p][i].pc = "start"
    /\ \E a \in Acquire(i, TaskOf(p, i)) :
         /\ nfaults' = nfaults + a.flt
         /\ conns' = a.conns
         /\ task' = [task EXCEPT ![p][i] =
                       IF a.err # Nil
                       THEN [@ EXCEPT !.pc = "closed", !.failed = TRUE]
                       ELSE [@ EXCEPT !.pc = "send", !.cn = a.cn, !.i = 1]]
    /\ UNCHANGED <<configs, servers, srv, vkey, vok, store, casctr, proc, nops, returned, nmulti, nother>>

\* one sendConnCommand of the pipeline: GetKQ for the next key, then Noop
TaskSend(p, i) ==
    /\ task[p][i].pc = "send"
    /\ LET t    == task[p][i]
           noop == t.i > Len(t.keys)
           req  == IF noop THEN Request(<<>>, cmdNoop, <<>>, 0, <<>>)
                   ELSE Request(t.keys[t.i], cmdGetKQ, <<>>, 0, <<>>)
       IN \E wr \in Writes :
            (nfaults' = nfaults + wr.flt) /\
            IF wr.w = "fail"
            THEN /\ conns' = Lifecycle(conns, i, t.cn, ErrIO)
                 /\ task' = [task EXCEPT ![p][i] =
                               [Counted(t, conns, conns', t.cn) EXCEPT
                                   !.pc = "closed", !.failed = TRUE]]
                 /\ UNCHANGED <<store, casctr>>
            ELSE LET r == Serve(store[i], casctr[i], req, wr.sf) IN
                 /\ store' = [store EXCEPT ![i] = r.store]
                 /\ casctr' = [casctr EXCEPT ![i] = r.ctr]
                 /\ conns' = [conns EXCEPT ![t.cn].out = @ \o Framed(srv[i].sloppy, r.out)]
                 /\ task' = [task EXCEPT ![p][i] =
                               [t EXCEPT !.pc = IF noop THEN "read" ELSE "send",
                                         !.i = @ + 1,
                                         !.reqs = Append(@, [cmd |-> req.cmd, key |-> req.key]),
                                         !.hits = IF ~noop /\ wr.sf = respOk /\ Has(store[i], req.key)
                                                  THEN Append(@, [key |-> req.key, e |-> store[i][req.key]])
                                                  ELSE @]]
    /\ UNCHANGED <<configs, servers, srv, vkey, vok, proc, nops, returned, nmulti, nother>>

\* one turn of the read loop, up to the channel send
TaskRead(p, i) ==
    /\ task[p][i].pc = "read"
    /\ \E fault \in Reads :
         (nfaults' = nfaults + FaultOf(fault)) /\
         LET t0 == task[p][i]
             pr == parseResponse(<<>>, conns[t0.cn].out, fault)
             t  == [t0 EXCEPT !.seen = Append(@, [key |-> pr.key, err |-> pr.err])]
             flags == IF Len(pr.extras) > 0 THEN bUint32(pr.extras) ELSE 0
             item == [Key |-> pr.key, Value |-> pr.value, Flags |-> flags,
                      Expiration |-> 0, casid |-> pr.hdr.cas]
         IN /\ conns' = [conns EXCEPT ![t.cn].out = pr.rest]
            /\ task' = [task EXCEPT ![p][i] =
                          IF pr.err # Nil THEN [t EXCEPT !.pc = "closed", !.failed = TRUE]
                          ELSE IF Len(pr.key) = 0 THEN [t EXCEPT !.pc = "closed"]
                          ELSE [t EXCEPT !.pc = "emit", !.item = item, !.parsed = Append(@, item)]]
    /\ UNCHANGED <<configs, servers, srv, vkey, vok, store, casctr, proc, nops, returned, nmulti, nother>>

\* ch <- item meets the collector's receive
CollectItem(p) ==
    /\ proc[p].op = "GetMulti" /\ proc[p].pc = "collect"
    /\ LET i == proc[p].chs[proc[p].ci] IN
         /\ task[p][i].pc = "emit"
         /\ proc' = [proc EXCEPT ![p].m = Merge(@, task[p][i].item)]
         /\ UNCHANGED returned
         /\ task' = [task EXCEPT ![p][i].pc = "read"]
    /\ UNCHANGED <<configs, servers, srv, vkey, vok, store, casctr, conns, nops, nfaults, nmulti, nother>>

\* a GetMulti that reports the failure of a shard
GetMultiResultStrict(rec, tasks) ==
    IF \E i \in DOMAIN tasks : tasks[i].failed
    THEN [rec EXCEPT !.pc = "done", !.err = ErrIO, !.m = {}, !.mnil = TRUE]
    ELSE [rec EXCEPT !.pc = "done", !.err = Nil]

\* return m, nil
GetMultiResult(rec, tasks) == [rec EXCEPT !.pc = "done", !.err = Nil]

\* a collector that returns when the first channel is closed
CollectFirstClosed(p) ==
    /\ proc[p].op = "GetMulti" /\ proc[p].pc = "collect"
    /\ task[p][proc[p].chs[proc[p].ci]].pc = "closed"
    /\ Settle(p, GetMultiResult(proc[p], task[p]))
    /\ task' = [task EXCEPT ![p] = [i \in Shards |-> NoTask]]
    /\ UNCHANGED <<configs, servers, srv, vkey, vok, store, casctr, conns, nops, nfaults, nmulti, nother>>

\* the channel is closed: on to the next one, and return after the last
CollectClosed(p) ==
    /\ proc[p].op = "GetMulti" /\ proc[p].pc = "collect"
    /\ task[p][proc[p].chs[proc[p].ci]].pc = "closed"
    /\ Settle(p, IF proc[p].ci < Len(proc[p].chs)
                  THEN [proc[p] EXCEPT !.ci = @ + 1]
                  ELSE GetMultiResult(proc[p], task[p]))
    /\ task' = IF proc[p].ci < Len(proc[p].chs) THEN task
               ELSE [task EXCEPT ![p] = [i \in Shards |-> NoTask]]
    /\ UNCHANGED <<configs, servers, srv, vkey, vok, store, casctr, conns, nops, nfaults, nmulti, nother>>

(***************************************************************************)
(* Environment: when the client starts, the servers hold "d", stored by     *)
(* another client; later another client rewrites an entry (it             *)
(* gets a fresh cas) or the server evicts it.                               *)
(***************************************************************************)
\* what the other clients store: the text "x" with flags 0
OtherValue == <<120>>

StoreAtStart ==
    [EmptyStore EXCEPT ![KeyD] =
        [has |-> TRUE, value |-> OtherValue, flags |-> putUint32(0), cas |-> 1]]

OtherClient(i) ==
    /\ nother < MaxOther
    /\ i < Len(configs)
    /\ nother' = nother + 1
    /\ \E k \in Keys :
         \/ /\ store[i][k].has
            /\ store' = [store EXCEPT ![i][k] =
                           [has |-> TRUE, value |-> OtherValue, flags |-> putUint32(0),
                            cas |-> casctr[i] + 1]]
            /\ casctr' = [casctr EXCEPT ![i] = @ + 1]
         \/ /\ store[i][k].has
            /\ store' = [store EXCEPT ![i][k] = NoEntry]
            /\ UNCHANGED casctr
    /\ UNCHANGED <<configs, servers, srv, vkey, vok, conns, proc, task, nops, nfaults, returned, nmulti>>

(***************************************************************************)
(* An application that calls the exported methods of the ServerList itself, *)
(* with an index of its own: GetConnection, then PutConnection or           *)
(* CloseConnection of the connection it got.  A call that panics ends the   *)
(* program.                                                                 *)
(***************************************************************************)
IndexArgs == 0..(MaxShards + 1)

Running == \A p \in Procs : proc[p].pc # "panicked"

\* the call of p returned err (or panicked); rec is how p goes on
Direct(p, op, index, cn, err, rec) ==
    /\ proc' = [proc EXCEPT ![p] = IF err = ErrPanic THEN [rec EXCEPT !.pc = "panicked"] ELSE rec]
    /\ returned' = [NoCall EXCEPT !.op = op, !.pc = "done", !.idx = index, !.cn = cn,
                                  !.err = err, !.p = p]
    /\ nops' = nops + 1
    /\ UNCHANGED <<configs, servers, srv, vkey, vok, store, casctr, task, nmulti, nother>>

CallGetConnection(p) ==
    /\ Running /\ nops < MaxCalls /\ proc[p].pc = "idle"
    /\ \E index \in IndexArgs : \E a \in Acquire(index, Main(p)) :
         /\ conns' = a.conns
         /\ nfaults' = nfaults + a.flt
         /\ Direct(p, "GetConnection", index, a.cn, a.err,
                   IF a.err = Nil
                   THEN [proc[p] EXCEPT !.op = "GetConnection", !.pc = "has", !.idx = index,
                                        !.cn = a.cn]
                   ELSE proc[p])

\* the application has put or closed its connection when the method
\* returned nil, and still has it when the method returned an error
CallPutConnection(p) ==
    /\ Running /\ nops < MaxCalls /\ proc[p].pc = "has"
    /\ \E index \in IndexArgs :
         /\ conns' = PutConnection(conns, index, proc[p].cn)
         /\ Direct(p, "PutConnection", index, proc[p].cn, AtIndex(index),
                   IF AtIndex(index) = Nil THEN [NoCall EXCEPT !.item = proc[p].item]
                   ELSE proc[p])
    /\ UNCHANGED nfaults

CallCloseConnection(p) ==
    /\ Running /\ nops < MaxCalls /\ proc[p].pc = "has"
    /\ \E index \in IndexArgs :
         /\ conns' = CloseConnection(conns, index, proc[p].cn)
         /\ Direct(p, "CloseConnection", index, proc[p].cn, AtIndex(index),
                   IF AtIndex(index) = Nil THEN [NoCall EXCEPT !.item = proc[p].item]
                   ELSE proc[p])
    /\ UNCHANGED nfaults

(***************************************************************************)
(* The client after New(configs), and its behaviours.                       *)
(***************************************************************************)
StartRest ==
    /\ servers = NewServerList(configs)
    /\ store = [i \in Shards |-> StoreAtStart]
    /\ casctr = [i \in Shards |-> 1]
    /\ conns = [c \in ConnIds |-> Unopened]
    /\ proc = [p \in Procs |-> NoCall]
    /\ task = [p \in Procs |-> [i \in Shards |-> NoTask]]
    /\ nops = 0
    /\ nfaults = 0
    /\ returned = NoCall
    /\ nmulti = 0
    /\ nother = 0
    /\ vkey = <<>>
    /\ vok = legalKey(vkey)

\* a server that offers PLAIN and frames its responses well
Plain == [mechs |-> PLAIN, sloppy |-> FALSE]

\* New(cfgs) with servers like traits
Start(cfgs, traits) ==
    /\ configs = cfgs
    /\ srv = traits
    /\ StartRest

\* no user, no password
Init ==
    \E n \in 0..MaxShards :
        Start([i \in 1..n |-> [Server |-> Addrs[i], User |-> <<>>, Password |-> <<>>]],
              [i \in Shards |-> Plain])

\* the lists of mechanisms a server may answer AuthList with:
\* "PLAIN", "LOGIN PLAIN", "LOGIN", "XPLAIN"
MechLists == {PLAIN, LOGIN \o <<32>> \o PLAIN, LOGIN, <<88>> \o PLAIN}
Users1 == {<<>>, <<117>>}
Passwords == {<<>>, <<112>>}

\* the same user, password and kind of server on every shard
InitAuth ==
    \E n \in 1..MaxShards, user \in Users1, password \in Passwords, mechs \in MechLists :
        Start([i \in 1..n |-> [Server |-> Addrs[i], User |-> user, Password |-> password]],
              [i \in Shards |-> [mechs |-> mechs, sloppy |-> FALSE]])

Next ==
    \/ \E p \in Procs : Get(p)
    \/ \E p \in Procs : GetReturn(p)
    \/ \E p \in Procs : Set(p)
    \/ \E p \in Procs : Add(p)
    \/ \E p \in Procs : CompareAndSwap(p)
    \/ \E p \in Procs : populateOneReturn(p)
    \/ \E p \in Procs : Delete(p)
    \/ \E p \in Procs : DeleteReturn(p)
    \/ \E p \in Procs : Increment(p)
    \/ \E p \in Procs : Decrement(p)
    \/ \E p \in Procs : incrDecrReturn(p)
    \/ \E p \in Procs : Flush(p)
    \/ \E p \in Procs : FlushShard(p)
    \/ \E p \in Procs : FlushReply(p)
    \/ \E p \in Procs : GetMulti(p)
    \/ \E p \in Procs, i \in Shards : TaskConnect(p, i)
    \/ \E p \in Procs, i \in Shards : TaskSend(p, i)
    \/ \E p \in Procs, i \in Shards : TaskRead(p, i)
    \/ \E p \in Procs : CollectItem(p)
    \/ \E p \in Procs : CollectClosed(p)
    \/ \E i \in Shards : OtherClient(i)
    \/ \E p \in Procs : CallGetConnection(p)
    \/ \E p \in Procs : CallPutConnection(p)
    \/ \E p \in Procs : CallCloseConnection(p)

Spec == Init /\ [][Next]_vars

\* the single-key calls and Flush
NextOne ==
    \/ \E p \in Procs : Get(p)
    \/ \E p \in Procs : GetReturn(p)
    \/ \E p \in Procs : Set(p)
    \/ \E p \in Procs : Add(p)
    \/ \E p \in Procs : CompareAndSwap(p)
    \/ \E p \in Procs : populateOneReturn(p)
    \/ \E p \in Procs : Delete(p)
    \/ \E p \in Procs : DeleteReturn(p)
    \/ \E p \in Procs : Increment(p)
    \/ \E p \in Procs : Decrement(p)
    \/ \E p \in Procs : incrDecrReturn(p)
    \/ \E p \in Procs : Flush(p)
    \/ \E p \in Procs : FlushShard(p)
    \/ \E p \in Procs : FlushReply(p)

SpecOne == Init /\ [][NextOne]_vars

\* the conditional writes next to the writes of other clients
NextCas ==
    \/ \E p \in Procs : Set(p)
    \/ \E p \in Procs : Add(p)
    \/ \E p \in Procs : CompareAndSwap(p)
    \/ \E p \in Procs : populateOneReturn(p)
    \/ \E i \in Shards : OtherClient(i)

SpecCas == Init /\ [][NextCas]_vars

\* GetMulti next to Set
NextMulti ==
    \/ \E p \in Procs : Set(p)
    \/ \E p \in Procs : populateOneReturn(p)
    \/ \E p \in Procs : GetMulti(p)
    \/ \E p \in Procs, i \in Shards : TaskConnect(p, i)
    \/ \E p \in Procs, i \in Shards : TaskSend(p, i)
    \/ \E p \in Procs, i \in Shards : TaskRead(p, i)
    \/ \E p \in Procs : CollectItem(p)
    \/ \E p \in Procs : CollectClosed(p)

SpecMulti == Init /\ [][NextMulti]_vars

\* the callers' key strings: bytes around the bounds legalKey tests, and
\* strings of the longest legal length and one more
KeyBytes == {0, 32, 33, 126, 127, 255}
KeyLengths == {250, 251}

KeyAppend(b) ==
    /\ Len(vkey) < MaxKeyLen
    /\ vkey' = Append(vkey, b)
    /\ vok' = legalKey(vkey')
    /\ UNCHANGED <<configs, servers, srv, store, casctr, conns, proc, task, nops, nfaults,
                   returned, nmulti, nother>>

KeyPad(n) ==
    /\ Len(vkey) <= MaxKeyLen
    /\ vkey' = vkey \o [i \in 1..(n - Len(vkey)) |-> 97]
    /\ vok' = legalKey(vkey')
    /\ UNCHANGED <<configs, servers, srv, store, casctr, conns, proc, task, nops, nfaults,
                   returned, nmulti, nother>>

NextKey ==
    \/ \E b \in KeyBytes : KeyAppend(b)
    \/ \E n \in KeyLengths : KeyPad(n)

SpecKey == Init /\ [][NextKey]_vars

\* servers that are sloppy with the length fields, or not
InitFrame ==
    \E n \in 1..MaxShards, sloppy \in BOOLEAN :
        Start([i \in 1..n |-> [Server |-> Addrs[i], User |-> <<>>, Password |-> <<>>]],
              [i \in Shards |-> [mechs |-> PLAIN, sloppy |-> sloppy]])

\* Get and Set
NextGetSet ==
    \/ \E p \in Procs : Get(p)
    \/ \E p \in Procs : GetReturn(p)
    \/ \E p \in Procs : Set(p)
    \/ \E p \in Procs : populateOneReturn(p)

\* with servers that ask for SASL
SpecAuth == InitAuth /\ [][NextGetSet]_vars

\* with servers that may be sloppy
SpecFrame == InitFrame /\ [][NextGetSet]_vars

\* the methods of the ServerList called with any index
NextServers ==
    \/ \E p \in Procs : CallGetConnection(p)
    \/ \E p \in Procs : CallPutConnection(p)
    \/ \E p \in Procs : CallCloseConnection(p)

SpecServers == Init /\ [][NextServers]_vars

\* the goroutines of a GetMulti are scheduled, and their network calls return
TaskStep(p, i) == TaskConnect(p, i) \/ TaskSend(p, i) \/ TaskRead(p, i)
Collect(p) == CollectItem(p) \/ CollectClosed(p)

\* GetMulti alone
NextGather ==
    \/ \E p \in Procs : GetMulti(p)
    \/ \E p \in Procs, i \in Shards : TaskConnect(p, i)
    \/ \E p \in Procs, i \in Shards : TaskSend(p, i)
    \/ \E p \in Procs, i \in Shards : TaskRead(p, i)
    \/ \E p \in Procs : CollectItem(p)
    \/ \E p \in Procs : CollectClosed(p)

SpecGatherFair ==
    /\ Init /\ [][NextGather]_vars
    /\ \A p \in Procs : WF_vars(Collect(p))
    /\ \A p \in Procs, i \in Shards : WF_vars(TaskStep(p, i))


(***************************************************************************)
(* Properties.                                                              *)
(***************************************************************************)
Keyed == {"Get", "Set", "Add", "CompareAndSwap", "Delete", "Increment", "Decrement"}
Recoverable == {Nil, ErrCacheMiss, ErrCASConflict, ErrNotStored, ErrBadIncrDec}
Range(f) == {f[x] : x \in DOMAIN f}
NumShards == Len(configs)

\* the connection of a call (or shard step) was handed back once, and to the
\* pool exactly on a written request with a recoverable outcome
HandedBack(acquired, written, err, nput, nclose) ==
    IF ~acquired THEN nput = 0 /\ nclose = 0
    ELSE IF written /\ err \in Recoverable THEN nput = 1 /\ nclose = 0
    ELSE nput = 0 /\ nclose = 1

StepsHandedBack(steps) ==
    \A j \in DOMAIN steps :
        HandedBack(steps[j].cn # 0, steps[j].written, steps[j].err,
                   steps[j].nput, steps[j].nclose)

\* C1: in Get, Set, Add, CompareAndSwap, Delete, Increment, Decrement and in
\* every shard step of Flush the acquired connection is handed back exactly
\* once: released to its shard's pool iff the request was written and the
\* outcome is success, CacheMiss, CASConflict, NotStored or BadIncrDec, and
\* closed on that shard otherwise; it is never both, and no connection stays
\* checked out by a call that is over.
C1_Lifecycle ==
    /\ returned.op \in Keyed =>
          HandedBack(returned.cn # 0, returned.written, returned.err,
                     returned.nput, returned.nclose)
    /\ returned.op = "Flush" => StepsHandedBack(returned.steps)
    /\ \A p \in Procs : proc[p].op = "Flush" => StepsHandedBack(proc[p].steps)
    /\ \A c \in ConnIds :
          /\ ~conns[c].misuse
          /\ conns[c].st = "held" =>
                \E p \in Procs : proc[p].pc \in {"sent", "flushsent"} /\ proc[p].cn = c
                                 /\ proc[p].idx = conns[c].shard

\* a Flush over two shards closed the connection of the first and released
\* the connection of the second
C1_Witness ==
    /\ returned.op = "Flush" /\ Len(returned.steps) = 2
    /\ returned.steps[1].cn # 0 /\ returned.steps[1].nclose = 1
    /\ returned.steps[2].cn # 0 /\ returned.steps[2].nput = 1

\* C2: when GetMulti returns, every connection one of its tasks acquired has
\* been released or closed, so with no call in flight no connection is
\* checked out.
C2_MultiHandsBack ==
    /\ returned.op = "GetMulti" =>
          \A i \in DOMAIN returned.tasks :
              returned.tasks[i].cn # 0 =>
                  returned.tasks[i].nput + returned.tasks[i].nclose = 1
    /\ (\A p \in Procs : proc[p].pc = "idle") =>
          \A c \in ConnIds : conns[c].st # "held"

\* the calls and tasks that are using a connection
Users ==
    {[id |-> Main(p), cn |-> proc[p].cn] :
        p \in {q \in Procs : proc[q].pc \in {"sent", "flushsent"}}}
    \cup
    {[id |-> TaskOf(pi[1], pi[2]), cn |-> task[pi[1]][pi[2]].cn] :
        pi \in {qi \in Procs \X Shards : task[qi[1]][qi[2]].pc \in {"send", "read", "emit"}}}

Exclusive ==
    /\ \A u \in Users :
          /\ u.cn \in ConnIds
          /\ conns[u.cn].st = "held"
          /\ conns[u.cn].owner = u.id
          /\ \A v \in Users : v.cn = u.cn => v = u
    /\ \A c \in ConnIds : ~conns[c].misuse

\* C3: under every interleaving a connection is used by at most one call or
\* task at a time: whoever writes to or reads from a connection holds it, no
\* connection is released or closed by one that does not hold it (so never
\* twice), and a closed connection is never handed out again.
C3_Exclusive ==
    /\ []Exclusive
    /\ [][\A c \in ConnIds : conns[c].st = "closed" => conns'[c].st = "closed"]_vars

\* a task of GetMulti and a Set use two connections of the same shard
C3_Witness ==
    \E p, q \in Procs, i \in Shards :
        /\ task[p][i].pc \in {"read", "emit"}
        /\ proc[q].pc = "sent" /\ proc[q].idx = i
        /\ proc[q].cn # task[p][i].cn

\* crc32("a") = 3904355907, crc32("d") = 2564639436 and
\* crc32(" ") = 3916222277, reduced modulo n
KnownIndex(key, n) ==
    CASE n = 1 -> 0
      [] n = 2 -> IF key = KeyD THEN 0 ELSE 1
      [] n = 3 -> IF key = KeySp THEN 2 ELSE 0

\* C4: PickServerIndex fails with NoServers iff no shard is configured;
\* otherwise it returns crc32(key) mod N, in 0..N-1, the same for a key in
\* every state and in every call, whatever happened in between.
C4_Pick ==
    /\ \A k \in GetKeys :
          /\ PickServerIndex(k).err = ErrNoServers <=> NumShards = 0
          /\ NumShards > 0 =>
                /\ PickServerIndex(k) = [idx |-> KnownIndex(k, NumShards), err |-> Nil]
                /\ PickServerIndex(k).idx \in 0..(NumShards - 1)
    /\ \A p \in Procs :
          proc[p].op \in Keyed /\ proc[p].pc = "sent" =>
              proc[p].idx = KnownIndex(proc[p].key, NumShards)
    /\ returned.op \in Keyed =>
          /\ returned.err = ErrNoServers <=> NumShards = 0
          /\ returned.cn # 0 => returned.idx = KnownIndex(returned.key, NumShards)

\* the second call of a behaviour was for "a" and went to shard 1 of 2
C4_Witness ==
    /\ NumShards = 2 /\ nops = 2
    /\ returned.op \in Keyed /\ returned.key = KeyA /\ returned.cn # 0 /\ returned.idx = 1

\* the read of the response went through
Decoded(call) == call.written /\ call.err \notin {ErrIO, ErrBadMagic}

\* C5: CompareAndSwap with a stale token (the server answers KeyExists)
\* fails with CASConflict; with the current token it succeeds and the item
\* gets the cas of the response.
C5_StaleIsConflict ==
    returned.op = "CompareAndSwap" /\ Decoded(returned) =>
        /\ returned.answer = respKeyExists => returned.err = ErrCASConflict
        /\ returned.answer = respOk =>
              returned.err = Nil /\ returned.item.casid > 1

\* C6: CompareAndSwap on an entry that is gone (the server answers
\* KeyNotFound) and Add on an entry that exists (KeyExists) fail with
\* NotStored, and the connection goes back to the pool.
C6_NotStored ==
    Decoded(returned) =>
        /\ returned.op = "CompareAndSwap" /\ returned.answer = respKeyNotFound =>
              returned.err = ErrNotStored /\ returned.nput = 1
        /\ returned.op = "Add" /\ returned.answer = respKeyExists =>
              returned.err = ErrNotStored /\ returned.nput = 1

\* the shard steps are those of shards 0, 1, ... in this order
InOrder(steps) == \A j \in DOMAIN steps : steps[j].idx = j - 1

\* C7: Flush visits every shard once, in the order 0..N-1, also after the
\* failure of a shard, and returns nil iff no shard failed, otherwise one
\* combined error.
C7_FlushAll ==
    /\ \A p \in Procs :
          proc[p].op = "Flush" =>
              /\ InOrder(proc[p].steps)
              /\ Len(proc[p].steps) = proc[p].idx
              /\ proc[p].idx < NumShards
    /\ returned.op = "Flush" =>
          /\ InOrder(returned.steps)
          /\ Len(returned.steps) = NumShards
          /\ returned.err = Nil <=> \A j \in DOMAIN returned.steps : returned.steps[j].err = Nil
          /\ returned.err \in {Nil, ErrFlush}

\* shard 0 failed and shard 1 was flushed after it
C7_Witness ==
    /\ returned.op = "Flush" /\ NumShards = 2
    /\ returned.steps[1].err # Nil
    /\ returned.steps[2].err = Nil /\ returned.steps[2].written
    /\ returned.err = ErrFlush

\* C8: the error of Flush names the failed shards: the address configured
\* for each of them, with its error, and no other shard.
C8_FlushNames ==
    returned.op = "Flush" =>
        LET bad(step) == step.err # Nil
            failures == SelectSeq(returned.steps, bad)
        IN /\ Len(returned.failed) = Len(failures)
           /\ Len(returned.errs) = Len(failures)
           /\ \A j \in DOMAIN failures :
                 /\ returned.failed[j] = configs[failures[j].idx + 1].Server
                 /\ returned.errs[j] = failures[j].err

NoTaskFailed(call) == \A i \in DOMAIN call.tasks : ~call.tasks[i].failed
HitsOf(call) == UNION {Range(call.tasks[i].hits) : i \in DOMAIN call.tasks}
ParsedOf(call) == UNION {Range(call.tasks[i].parsed) : i \in DOMAIN call.tasks}

\* C9: when no task fails, the map of GetMulti has exactly the requested
\* keys that had an entry when their shard answered, one item for each, with
\* the value, flags and cas the server had.
C9_MultiExact ==
    returned.op = "GetMulti" /\ ~returned.mnil /\ NoTaskFailed(returned) =>
        /\ {x.Key : x \in returned.m} = {h.key : h \in HitsOf(returned)}
        /\ {x.Key : x \in returned.m} \subseteq Range(returned.keys)
        /\ \A x, y \in returned.m : x.Key = y.Key => x = y
        /\ \A x \in returned.m :
              \E h \in HitsOf(returned) :
                  /\ h.key = x.Key
                  /\ h.e.value = x.Value
                  /\ bUint32(h.e.flags) = x.Flags
                  /\ h.e.cas = x.casid

\* "a" and "d" were asked for, on two shards, and both were there
C9_Witness ==
    /\ returned.op = "GetMulti" /\ NoTaskFailed(returned)
    /\ returned.keys = <<KeyA, KeyD>> /\ NumShards = 2
    /\ {x.Key : x \in returned.m} = {KeyA, KeyD}

\* C10: with a shard configured GetMulti returns a nil error and a map,
\* also when tasks fail, and the map has every item a task has parsed.
C10_MultiPartial ==
    returned.op = "GetMulti" /\ NumShards >= 1 =>
        /\ returned.err = Nil
        /\ ~returned.mnil
        /\ returned.m \subseteq ParsedOf(returned)
        /\ \A x \in ParsedOf(returned) : \E y \in returned.m : y.Key = x.Key

\* a task failed after it had parsed an item, and the item is in the map
C10_Witness ==
    /\ returned.op = "GetMulti"
    /\ \E i \in DOMAIN returned.tasks :
          /\ returned.tasks[i].failed
          /\ returned.tasks[i].parsed # <<>>
          /\ returned.tasks[i].parsed[1] \in returned.m

\* C11: GetMulti returns only after every task it started has closed its
\* channel, and when the goroutines are scheduled and their network calls
\* return, every GetMulti that has started its tasks returns: the collector
\* and the tasks never wait for each other for ever.
C11_MultiReturns ==
    /\ [](returned.op = "GetMulti" =>
             \A i \in DOMAIN returned.tasks : returned.tasks[i].pc \in {"none", "closed"})
    /\ \A p \in Procs :
          (proc[p].op = "GetMulti" /\ proc[p].pc = "collect") ~> (proc[p].pc = "idle")

\* GetMulti returned after two tasks, and the task of the channel drained
\* last had an item to send
C11_Witness ==
    /\ returned.op = "GetMulti" /\ Len(returned.chs) = 2
    /\ returned.tasks[returned.chs[1]].pc = "closed"
    /\ returned.tasks[returned.chs[2]].pc = "closed"
    /\ returned.tasks[returned.chs[2]].parsed # <<>>

Credentialed(config) == config.User # <<>> \/ config.Password # <<>>

\* the elements of a list delimited by spaces and commas
RECURSIVE Fields(_)
Fields(s) ==
    LET seps == {i \in 1..Len(s) : s[i] \in {32, 44}}
        first == CHOOSE i \in seps : \A j \in seps : i <= j
    IN IF s = <<>> THEN {}
       ELSE IF seps = {} THEN {s}
       ELSE (IF first > 1 THEN {SubSeq(s, 1, first - 1)} ELSE {})
            \cup Fields(SubSeq(s, first + 1, Len(s)))

\* the connections the pools got from their factories
Opened == {c \in ConnIds : conns[c].st \notin {"unopened", "dialed"}}
StartsOf(c) == {j \in DOMAIN conns[c].hs : conns[c].hs[j].req.cmd = opAuthStart}

\* C12: with a user or a password configured, every connection a pool has
\* (so every connection an application request is written on) went through
\* the handshake: AuthList was sent and its response read without error,
\* and when the list has PLAIN an AuthStart was sent and answered OK; a
\* handshake with a failed exchange yields no connection.
C12_Handshake ==
    \A c \in Opened :
        Credentialed(configs[conns[c].shard + 1]) =>
            LET hs == conns[c].hs IN
            /\ Len(hs) >= 1
            /\ hs[1].req.cmd = opAuthList
            /\ PLAIN \in Fields(srv[conns[c].shard].mechs) => StartsOf(c) # {}
            /\ \A j \in DOMAIN hs : hs[j].err = Nil

\* a Set has written its request on a connection that went through AuthList
\* and AuthStart
C12_Witness ==
    \E p \in Procs :
        /\ proc[p].op = "Set" /\ proc[p].pc = "sent"
        /\ Credentialed(configs[proc[p].idx + 1])
        /\ Len(conns[proc[p].cn].hs) = 2

\* C20: the factory sends AuthStart iff a user or a password is configured
\* and an element of the list of mechanisms equals PLAIN.
C20_StartIffPlain ==
    \A c \in Opened :
        StartsOf(c) # {} <=>
            /\ Credentialed(configs[conns[c].shard + 1])
            /\ PLAIN \in Fields(srv[conns[c].shard].mechs)

\* C13: legalKey accepts a key iff it has at most 250 bytes and every byte
\* is in 0x21..0x7e; the empty key is accepted.
C13_LegalKey ==
    /\ vok <=> (Len(vkey) <= 250 /\ \A i \in DOMAIN vkey : vkey[i] >= 33 /\ vkey[i] <= 126)
    /\ vkey = <<>> => vok

\* a key of 250 bytes that begins with "!" and "~" is accepted
C13_Witness == Len(vkey) = 250 /\ vkey[1] = 33 /\ vkey[2] = 126 /\ vok

\* the requests a task has to write for the keys of shard i in the list
Pipeline(keys, i) ==
    LET mine(k) == KnownIndex(k, NumShards) = i
        group == SelectSeq(keys, mine)
    IN [j \in 1..Len(group) |-> [cmd |-> cmdGetKQ, key |-> group[j]]]
       \o <<[cmd |-> cmdNoop, key |-> <<>>]>>

Emitted(x) == x.err = Nil /\ x.key # <<>>

\* a task that writes the pipeline before it reads, emits the frames with a
\* key and stops at the first frame without one or at the first error
TaskInOrder(t, pipeline) ==
    /\ Len(t.reqs) <= Len(pipeline)
    /\ t.reqs = SubSeq(pipeline, 1, Len(t.reqs))
    /\ (t.seen # <<>> \/ t.pc \in {"read", "emit"}) => t.reqs = pipeline
    /\ \A j \in 1..(Len(t.seen) - 1) : Emitted(t.seen[j])
    /\ (t.seen # <<>> /\ ~Emitted(t.seen[Len(t.seen)])) => t.pc = "closed"
    /\ LET sent == SelectSeq(t.seen, Emitted) IN
          /\ Len(t.parsed) = Len(sent)
          /\ \A j \in DOMAIN sent : t.parsed[j].Key = sent[j].key

TasksInOrder(keys, chs, tasks) ==
    LET touched == {KnownIndex(keys[j], NumShards) : j \in DOMAIN keys} IN
    /\ {i \in DOMAIN tasks : tasks[i].pc # "none"} = touched
    /\ Range(chs) = touched
    /\ Len(chs) = Cardinality(touched)
    /\ \A i \in touched : TaskInOrder(tasks[i], Pipeline(keys, i))

\* C14: GetMulti starts one task for every shard index of its key list and
\* no other; a task writes one GetKQ for every key of its group, in the
\* order of the list, then one Noop, and reads nothing before; it emits every
\* frame with a key and stops reading at the first frame without a key or at
\* the first decode error.
C14_Pipeline ==
    /\ \A p \in Procs :
          proc[p].op = "GetMulti" /\ proc[p].pc = "collect" =>
              TasksInOrder(proc[p].keys, proc[p].chs, task[p])
    /\ returned.op = "GetMulti" /\ returned.err = Nil =>
          TasksInOrder(returned.keys, returned.chs, returned.tasks)

\* "a" and "d" are on the one shard: GetKQ a, GetKQ d, Noop were written
\* and the frame of "d", then the answer to Noop were read
C14_Witness ==
    /\ returned.op = "GetMulti" /\ NumShards = 1 /\ returned.keys = <<KeyA, KeyD>>
    /\ Len(returned.tasks[0].reqs) = 3
    /\ Len(returned.tasks[0].seen) = 2
    /\ Len(returned.tasks[0].parsed) = 1

\* C15: with servers that frame their responses well, every connection at
\* rest in a pool is at a frame boundary: nothing of an earlier response is
\* left on it, so a call that has written its request on a connection finds
\* the response to that request and nothing else.
C15_Aligned ==
    /\ \A c \in ConnIds : conns[c].st = "idle" => conns[c].out = <<>>
    /\ \A p \in Procs :
          proc[p].pc \in {"sent", "flushsent"} =>
              /\ Len(conns[proc[p].cn].out) = 1
              /\ proc[p].pc = "sent" => conns[proc[p].cn].out[1].status = proc[p].answer

\* a Get was answered KeyNotFound with a body, and its connection is back in
\* the pool with nothing on it
C15_Witness ==
    /\ returned.op = "Get" /\ returned.err = ErrCacheMiss /\ returned.nput = 1
    /\ conns[returned.cn].st = "idle" /\ conns[returned.cn].out = <<>>

\* C16: an OK response whose total body length is less than its extras
\* length plus its key length is a protocol error: the Get that reads it
\* fails and its connection is closed, not released.
C16_Inconsistent ==
    (/\ returned.op = "Get" /\ returned.written
     /\ srv[returned.idx].sloppy
     /\ returned.answer = respOk
     /\ returned.err \notin {ErrIO, ErrBadMagic})
    => returned.err # Nil /\ returned.nput = 0 /\ returned.nclose = 1

\* C17: a response with status InvalidArgs makes the operation return
\* MalformedKey when legalKey rejects the key of the call, and the status
\* error otherwise; the body of the response has been read, and the
\* connection is closed, not released.
C17_InvalidArgs ==
    (/\ returned.op \in Keyed /\ returned.written
     /\ returned.answer = respInvalidArgs
     /\ returned.err \notin {ErrIO, ErrBadMagic})
    => /\ returned.err = IF returned.key = KeySp THEN ErrMalformedKey
                         ELSE StatusErr(respInvalidArgs)
       /\ conns[returned.cn].out = <<>>
       /\ returned.nput = 0 /\ returned.nclose = 1
       /\ conns[returned.cn].st = "closed"

\* Get(" ") was answered InvalidArgs and returned MalformedKey
C17_Witness ==
    /\ returned.op = "Get" /\ returned.key = KeySp /\ returned.answer = respInvalidArgs
    /\ returned.err = ErrMalformedKey /\ returned.nclose = 1

\* C18: Set and Add send cas 0 whatever token the item holds and
\* CompareAndSwap sends the token of the item; on success the token of the
\* item becomes the cas of the response and nothing else of the item
\* changes; on every failure the item is as it was passed.
C18_CasToken ==
    returned.op \in {"Set", "Add", "CompareAndSwap"} =>
        /\ returned.written =>
              returned.reqcas = IF returned.op = "CompareAndSwap" THEN returned.arg.casid ELSE 0
        /\ returned.err = Nil =>
              /\ returned.written /\ returned.answer = respOk
              /\ returned.item = [returned.arg EXCEPT !.casid = returned.anscas]
        /\ returned.err # Nil => returned.item = returned.arg

\* a Set of an item that held a token: cas 0 was sent, and the item has the
\* token of the response
C18_Witness ==
    /\ returned.op = "Set" /\ returned.arg.casid # 0 /\ returned.written
    /\ returned.reqcas = 0 /\ returned.err = Nil
    /\ returned.item.casid = returned.anscas /\ returned.item.casid # returned.arg.casid

\* C19: a key that legalKey rejects makes a keyed operation fail before a
\* shard is picked: no connection is acquired and nothing is written.
C19_ValidateFirst ==
    /\ \A p \in Procs : proc[p].op \in Keyed /\ proc[p].pc = "sent" => proc[p].key # KeySp
    /\ returned.op \in Keyed /\ returned.key = KeySp =>
          /\ returned.err # Nil
          /\ returned.cn = 0 /\ ~returned.written

\* C21: every CompareAndSwap request carries a version check (a cas that is
\* not 0), also for an item the caller built, and a CompareAndSwap that
\* succeeds replaces only the entry whose cas is the token of the item.
C21_AlwaysConditional ==
    returned.op = "CompareAndSwap" /\ returned.written =>
        /\ returned.reqcas # 0
        /\ returned.err = Nil => returned.had = returned.arg.casid

\* C22: every socket the factory dials is handed to the pool or closed: when
\* the handshake fails after the dial, no open socket is left behind.
C22_NoSocketLeft ==
    \A c \in ConnIds : conns[c].st # "dialed"

\* C23: GetConnection, PutConnection and CloseConnection called with an
\* index that is not below the number of shards return "server not found"
\* and never index past the pools; with an index below it, they act on the
\* pool of that index: the connection is taken from it, put in it or closed.
C23_IndexGuard ==
    /\ Running
    /\ returned.op \in {"GetConnection", "PutConnection", "CloseConnection"} =>
          /\ returned.idx >= Len(configs) => returned.err = ErrServerNotFound
          /\ returned.idx < Len(configs) /\ returned.err = Nil =>
                /\ returned.op # "CloseConnection" => conns[returned.cn].shard = returned.idx
                /\ conns[returned.cn].st = CASE returned.op = "GetConnection" -> "held"
                                            [] returned.op = "PutConnection" -> "idle"
                                            [] OTHER -> "closed"

====
